---- MODULE Spec2Model ----
(***************************************************************************)
(* Solana-OrderFlow: the event pipeline                                    *)
(*   listener (EventNormalizer)  -> topic escrow.events.v1                 *)
(*   storage-writer (PersistenceWriter): events table + offers table       *)
(*   risk-engine (RuleEngine): sliding cancel window + alert de-dupe       *)
(* Each service is one sequential loop; one loop iteration is one action.  *)
(***************************************************************************)
EXTENDS Integers, Sequences, FiniteSets, TLC

(***************************************************************************)
(* Bounds of the model.                                                    *)
(***************************************************************************)
\* Longest events topic (one partition) the model lets the producer write.
MaxLog == 2
\* Ledger slots range over 1..MaxSlot.
MaxSlot == 2
\* i64::MAX scaled down; u64::MAX is scaled to 2 * I64Max + 1.
I64Max == 3
\* Clock readings (now_ms) range over 0..MaxTime.
MaxTime == 1
\* Longest list of log lines of one notification.
MaxLines == 2
\* Longest events topic the risk-engine model consumes.
MaxRiskLog == 3
\* The clock read by the risk-engine ranges over 0..MaxClock.
MaxClock == 2
\* How many times the risk-engine process is started again.
MaxRestarts == 1

(***************************************************************************)
(* Configuration of the risk-engine (struct Args), scaled down.            *)
(***************************************************************************)
\* --cancel-threshold
cancel_threshold == 2
\* window_ms = cancel_window_min * 60_000
window_ms == 1
\* --large-amount-threshold
large_amount_threshold == 4

U64Max == 2 * I64Max + 1

(***************************************************************************)
(* State.                                                                  *)
(***************************************************************************)
VARIABLES
    \* ---- Kafka topic escrow.events.v1, one partition -------------------
    topic,          \* sequence of messages, offset i is topic[i]
    \* ---- storage-writer ------------------------------------------------
    wState,         \* "running" | "stopped"   (the loop of main)
    wSignal,        \* the ctrl_c() future of the process has resolved
    wPos,           \* consumer position: index of the next message fetched
    wCommitted,     \* group offset committed at the broker (messages covered)
    wIssued,        \* offset of the last commit_message call (from wCommitted)
    events,         \* table events: sequence of rows in insertion order
    offers,         \* table offers: function offer_id -> row
    \* ---- history variables of the storage-writer (not program state) ---
    hInserted,      \* event_ids whose audit insert statement ran
    hUpserted,      \* offer_id -> set of events whose upsert statement ran
    hFirst,         \* offer_id -> the event upserted first (a set, <= 1 element)
    hLast,          \* offer_id -> the event upserted last (a set, <= 1 element)
    \* ---- listener ------------------------------------------------------
    lState,         \* "running" | "stopped" | "exited"   (the loop of main)
    lSignal,        \* the ctrl_c() future of the process has resolved
    lCluster,       \* args.cluster of the running process
    \* ---- history variable of the listener (not program state) ----------
    hAttempts,      \* the publish attempts: [signature, log_index, event_id]
    \* ---- risk-engine ---------------------------------------------------
    rState,         \* "running" | "stopped"   (the loop of main)
    rSignal,        \* the ctrl_c() future of the process has resolved
    rPos,           \* consumer position: index of the next message fetched
    rCommitted,     \* offset committed for group risk-engine-v1
    rIssued,        \* offset of the last commit_message call (from rCommitted)
    cancels,        \* HashMap maker -> VecDeque of cancel timestamps
    emitted_alerts, \* HashSet of the alert_ids emitted by this process
    alerts,         \* topic escrow.alerts.v1: the alerts delivered to it
    rLives,         \* how many times the process has been started again
    \* ---- history variables of the risk-engine, per process lifetime -----
    hSends,         \* alert_ids handed to producer.send, in order
    hCancels,       \* maker -> the times its Cancelled events were processed at
    hFreq,          \* maker -> the evaluations that reached the threshold:
                    \*          [n: cancellation number, alert_id, sent]
    \* ---- one evaluation of a function of the services ------------------
    call,           \* the function called and its arguments
    ret             \* what the call returned

wvars == <<wState, wSignal, wPos, wCommitted, wIssued, events, offers,
           hInserted, hUpserted, hFirst, hLast>>

lvars == <<lState, lSignal, lCluster, hAttempts>>

rvars == <<rState, rSignal, rPos, rCommitted, rIssued, cancels, emitted_alerts, alerts, rLives,
           hSends, hCancels, hFreq>>

fvars == <<call, ret>>

vars == <<topic, wvars, lvars, rvars, fvars>>

(***************************************************************************)
(* common/src/lib.rs: the schema carried by the topic.                     *)
(***************************************************************************)
EventType == {"OfferCreated", "OfferFilled", "OfferCancelled"}

None == "None"

\* struct NormalizedEvent
NormalizedEvent(id, ty, slot, sig, offer, maker, taker, amt_a, amt_b, ts) ==
    [event_id |-> id, event_type |-> ty, cluster |-> "localnet", slot |-> slot,
     signature |-> sig, program_id |-> "escrow", offer_id |-> offer,
     maker |-> maker, taker |-> taker, mint_a |-> "mintA", mint_b |-> "mintB",
     amount_a |-> amt_a, amount_b |-> amt_b, commitment |-> "finalized",
     ts_ingest_ms |-> ts]

\* What <u64 as FromStr>::from_str accepts before the digits as u64::to_string
\* writes them: an optional "+", and leading zeros (here: at most one).
U64Prefixes == {"", "+", "0", "+0"}

\* The strings <u64 as FromStr>::from_str accepts, each with its value.
U64Table ==
    LET Readings == { <<pre \o ToString(n), n>> : pre \in U64Prefixes, n \in 0..U64Max }
    IN  [t \in { r[1] : r \in Readings } |-> (CHOOSE r \in Readings : r[1] = t)[2]]

\* s.parse::<u64>().ok(): <<v>> is Some(v), <<>> is None.  A string that is
\* not a number (empty, a "-" sign, a fraction, a letter), or whose value
\* exceeds u64::MAX, does not parse.
parse_u64_str(s) ==
    IF s \in DOMAIN U64Table THEN <<U64Table[s]>> ELSE <<>>

\* Option::unwrap_or
unwrap_or(opt, d) == IF opt = <<>> THEN d ELSE opt[1]

Min(a, b) == IF a <= b THEN a ELSE b

\* `x as i64` of a u64: two's complement wrap.
AsI64(x) == IF x <= I64Max THEN x ELSE x - (U64Max + 1)

(***************************************************************************)
(* The messages the storage-writer model consumes.  A message either       *)
(* decodes to a NormalizedEvent or is garbage (not UTF-8 / not the JSON).  *)
(***************************************************************************)
Slots == 1..MaxSlot

\* Mutant of format_event_id: the instruction index written where the log
\* index belongs.
format_event_id_InstructionOnly(sig, log_index) ==
    sig \o ":" \o ToString(0) \o ":" \o ToString(0)

\* format!("{}:{}:{}", sig, instruction_index, log_index), instruction_index = 0
format_event_id(sig, log_index) ==
    sig \o ":" \o ToString(0) \o ":" \o ToString(log_index)

\* The ledger: slot s holds one transaction, of signature SigOfSlot(s), and
\* an event of kind ty is the log line LogIndexOf[ty] of its transaction.
SigOfSlot(s) == "sig" \o ToString(s)
LogIndexOf ==
    ("OfferCreated" :> 0) @@ ("OfferFilled" :> 1) @@ ("OfferCancelled" :> 2)

\* The events of the ledger as the listener publishes them at ingestion time
\* ts: the same line of the same transaction, published again, differs in
\* ts_ingest_ms only.
LedgerEvent(ty, s, ts) ==
    NormalizedEvent(format_event_id(SigOfSlot(s), LogIndexOf[ty]), ty, s,
                    SigOfSlot(s), "42", "mk",
                    IF ty = "OfferFilled" THEN "tk" ELSE None, "1", "2", ts)

\* create_offer of another maker under the same offer_id (the escrow account
\* is derived from maker and offer_id, so the program admits it), logged as
\* a further line of the transaction of slot s.
OtherMakerCreated(s) ==
    NormalizedEvent(format_event_id(SigOfSlot(s), 3), "OfferCreated", s,
                    SigOfSlot(s), "42", "mk2", None, "1", "2", 0)

\* Every event of the ledger ingested at time 0, the Created event of slot 1
\* also as ingested again at time MaxTime, and the other maker's Created
\* event of the last slot.
WriterEvents ==
    { LedgerEvent(ty, s, 0) : ty \in EventType, s \in Slots }
    \cup { LedgerEvent("OfferCreated", 1, MaxTime) }
    \cup { OtherMakerCreated(MaxSlot) }

EventIds == { e.event_id : e \in WriterEvents }

Garbage == [valid |-> FALSE,
            ev |-> NormalizedEvent("", "OfferCreated", 0, "", "", "", None, "", "", 0)]

WriterMessages == { [valid |-> TRUE, ev |-> e] : e \in WriterEvents } \cup {Garbage}

OfferIds == { e.offer_id : e \in WriterEvents }

(***************************************************************************)
(* storage-writer: handle_event                                            *)
(***************************************************************************)
\* The row of table events built from the statement's parameters.
EventRow(ev) ==
    [event_id |-> ev.event_id, event_type |-> ev.event_type,
     signature |-> ev.signature, slot |-> AsI64(ev.slot),
     offer_id |-> ev.offer_id, payload_json |-> ev]

\* Mutant of InsertEvent: on conflict (event_id) do update, the row replaced
\* by the incoming one.
InsertEvent_DoUpdate(tbl, ev) ==
    IF \E i \in DOMAIN tbl : tbl[i].event_id = ev.event_id
    THEN [i \in DOMAIN tbl |->
             IF tbl[i].event_id = ev.event_id THEN EventRow(ev) ELSE tbl[i]]
    ELSE Append(tbl, EventRow(ev))

\* Mutant of InsertEvent: the insert without its on-conflict clause, on a
\* table without the unique key.
InsertEvent_NoConflictClause(tbl, ev) == Append(tbl, EventRow(ev))

\* insert into events ... on conflict (event_id) do nothing
InsertEvent(tbl, ev) ==
    IF \E i \in DOMAIN tbl : tbl[i].event_id = ev.event_id
    THEN tbl
    ELSE Append(tbl, EventRow(ev))

\* Mutant of StatusTaker: the Filled arm drops the taker.
StatusTaker_FilledNoTaker(ev) ==
    CASE ev.event_type = "OfferCreated"   -> <<"created", None>>
      [] ev.event_type = "OfferFilled"    -> <<"filled", None>>
      [] ev.event_type = "OfferCancelled" -> <<"cancelled", None>>

\* let (status, taker) = match ev.event_type
StatusTaker(ev) ==
    CASE ev.event_type = "OfferCreated"   -> <<"created", None>>
      [] ev.event_type = "OfferFilled"    -> <<"filled", ev.taker>>
      [] ev.event_type = "OfferCancelled" -> <<"cancelled", None>>

\* ev.amount_x.parse::<u64>().unwrap_or(0).min(i64::MAX as u64) as i64
\* Mutant of AmountI64: the cast without .min(i64::MAX as u64).
AmountI64_Wrapping(s) == AsI64(unwrap_or(parse_u64_str(s), 0))

AmountI64(s) == AsI64(Min(unwrap_or(parse_u64_str(s), 0), I64Max))

\* SQL NULL, an integer outside the range of an i64 column.
SqlNull == 0 - (I64Max + 2)

\* coalesce(a, b)
Coalesce(a, b) == IF a # SqlNull THEN a ELSE b

\* The row proposed for insertion (`excluded` in the on-conflict clause).
\* Column updated_at (= now() on every write) is left out of the row: the
\* properties below are about the columns derived from the event.
Excluded(ev) ==
    [status |-> StatusTaker(ev)[1], maker |-> ev.maker,
     taker |-> StatusTaker(ev)[2], mint_a |-> ev.mint_a, mint_b |-> ev.mint_b,
     amount_a |-> AmountI64(ev.amount_a), amount_b |-> AmountI64(ev.amount_b),
     created_slot |-> AsI64(ev.slot), updated_slot |-> AsI64(ev.slot)]

\* Mutant of UpsertGuard: only the maker of the row may overwrite it.
UpsertGuard_SameMaker(old, new) ==
    old.updated_slot <= new.updated_slot /\ old.maker = new.maker

\* Mutant of UpsertGuard: an equal updated_slot does not pass.
UpsertGuard_Strict(old, new) == old.updated_slot < new.updated_slot

\* Mutant of UpsertGuard: the comparison turned around.
UpsertGuard_Reversed(old, new) == old.updated_slot >= new.updated_slot

\* where offers.updated_slot <= excluded.updated_slot
UpsertGuard(old, new) == old.updated_slot <= new.updated_slot

\* Mutant of UpsertCreatedSlot: created_slot = excluded.created_slot, like
\* the other columns.
UpsertCreatedSlot_Excluded(old, new) == new.created_slot

\* Mutant of UpsertCreatedSlot: the arguments of coalesce swapped.
UpsertCreatedSlot_Swapped(old, new) == Coalesce(new.created_slot, old.created_slot)

\* created_slot = coalesce(offers.created_slot, excluded.created_slot)
UpsertCreatedSlot(old, new) == Coalesce(old.created_slot, new.created_slot)

\* insert into offers ... on conflict (offer_id) do update set ... where ...
UpsertOffer(tbl, ev) ==
    LET o == ev.offer_id
        new == Excluded(ev)
    IN  IF o \notin DOMAIN tbl
        THEN tbl @@ (o :> new)
        ELSE IF UpsertGuard(tbl[o], new)
             THEN [tbl EXCEPT ![o] =
                       [new EXCEPT !.created_slot = UpsertCreatedSlot(tbl[o], new)]]
             ELSE tbl

\* How far handle_event gets: each db.execute(...).await? either succeeds or
\* returns the storage error, which ends handle_event there.
HandleOutcomes == {"insert_failed", "upsert_failed", "ok"}

\* Mutant of handle_event: it returns Ok after the audit insert alone.
handle_event_AuditOnly(ev, outcome) ==
    /\ events' = IF outcome = "insert_failed" THEN events
                 ELSE InsertEvent(events, ev)
    /\ hInserted' = IF outcome = "insert_failed" THEN hInserted
                    ELSE hInserted \cup {ev.event_id}
    /\ UNCHANGED <<offers, hUpserted, hFirst, hLast>>

\* handle_event(db, ev) ending with `outcome`: the two statements run one
\* after the other on the connection, outside any transaction.
handle_event(ev, outcome) ==
    /\ events' = IF outcome = "insert_failed" THEN events
                 ELSE InsertEvent(events, ev)
    /\ offers' = IF outcome = "ok" THEN UpsertOffer(offers, ev) ELSE offers
    /\ hInserted' = IF outcome = "insert_failed" THEN hInserted
                    ELSE hInserted \cup {ev.event_id}
    /\ hUpserted' = IF outcome = "ok"
                    THEN [hUpserted EXCEPT ![ev.offer_id] = @ \cup {ev}]
                    ELSE hUpserted
    /\ hFirst' = IF outcome = "ok" /\ hFirst[ev.offer_id] = {}
                 THEN [hFirst EXCEPT ![ev.offer_id] = {ev}]
                 ELSE hFirst
    /\ hLast' = IF outcome = "ok"
                THEN [hLast EXCEPT ![ev.offer_id] = {ev}]
                ELSE hLast

(***************************************************************************)
(* storage-writer: main                                                    *)
(***************************************************************************)
\* Mutant of CommitMessage: no commit is issued.
CommitMessage_Dropped(off, delivered) ==
    UNCHANGED <<wCommitted, wIssued>>

\* consumer.commit_message(&msg, CommitMode::Async) for the message at offset
\* `off`; the result is dropped (`let _ =`), and an asynchronous commit may
\* be lost, which `delivered` decides.
CommitMessage(off, delivered) ==
    /\ wIssued' = off
    /\ wCommitted' = IF delivered THEN off ELSE wCommitted

\* One iteration of the loop whose select takes the stream.next() arm with
\* Some(Ok(msg)).
WriterPoll ==
    /\ wState = "running"
    /\ wPos <= Len(topic)
    /\ LET msg == topic[wPos] IN
        /\ wPos' = wPos + 1
        /\ \/ \* payload_view fails or serde_json::from_str fails
              /\ ~msg.valid
              /\ \E delivered \in BOOLEAN : CommitMessage(wPos, delivered)
              /\ UNCHANGED <<events, offers, hInserted, hUpserted, hFirst, hLast>>
           \/ \* handle_event returns Err: continue without commit
              /\ msg.valid
              /\ \E outcome \in HandleOutcomes \ {"ok"} :
                    handle_event(msg.ev, outcome)
              /\ UNCHANGED <<wCommitted, wIssued>>
           \/ \* handle_event returns Ok: commit
              /\ msg.valid
              /\ handle_event(msg.ev, "ok")
              /\ \E delivered \in BOOLEAN : CommitMessage(wPos, delivered)
    /\ UNCHANGED <<topic, wState, wSignal>>
    /\ UNCHANGED <<lvars, rvars, fvars>>

\* The process receives the interrupt signal: its ctrl_c() future resolves
\* and stays resolved.
WriterSignal ==
    /\ wState = "running"
    /\ ~wSignal
    /\ wSignal' = TRUE
    /\ UNCHANGED <<topic, wState, wPos, wCommitted, wIssued, events, offers,
                   hInserted, hUpserted, hFirst, hLast>>
    /\ UNCHANGED <<lvars, rvars, fvars>>

\* Mutant of WriterShutdown: the shutdown arm does not leave the loop.
WriterShutdown_Ignored ==
    /\ wState = "running"
    /\ wSignal
    /\ UNCHANGED vars

\* The select takes the shutdown arm, which is ready once the signal has
\* fired: break.
WriterShutdown ==
    /\ wState = "running"
    /\ wSignal
    /\ wState' = "stopped"
    /\ UNCHANGED <<topic, wSignal, wPos, wCommitted, wIssued, events, offers,
                   hInserted, hUpserted, hFirst, hLast>>
    /\ UNCHANGED <<lvars, rvars, fvars>>

\* The process starts again (or the group rebalances): the consumer of group
\* storage-writer-v1 resumes at the committed offset; both tables persist.
WriterRestart ==
    /\ wState' = "running"
    /\ wSignal' = FALSE
    /\ wPos' = wCommitted + 1
    /\ wIssued' = wCommitted
    /\ UNCHANGED <<topic, wCommitted, events, offers,
                   hInserted, hUpserted, hFirst, hLast>>
    /\ UNCHANGED <<lvars, rvars, fvars>>

\* A producer (the listener) appends a message to the partition.
WriterPublish ==
    /\ Len(topic) < MaxLog
    /\ \E m \in WriterMessages : topic' = Append(topic, m)
    /\ UNCHANGED <<wState, wSignal, wPos, wCommitted, wIssued, events, offers,
                   hInserted, hUpserted, hFirst, hLast>>
    /\ UNCHANGED <<lvars, rvars, fvars>>

(***************************************************************************)
(* listener: main                                                          *)
(***************************************************************************)
\* struct OnchainLogEvent: the JSON object of a log line.
OnchainLogEvent(event, offer, maker, taker, amt_a, amt_b) ==
    [event |-> event, offer_id |-> offer, maker |-> maker, taker |-> taker,
     mint_a |-> "mintA", mint_b |-> "mintB", amount_a |-> amt_a, amount_b |-> amt_b]

\* A log line, by what the loop body tests of it:
\*   "no_prefix"     does not start with "Program log: "
\*   "no_event_key"  has the prefix, but no "event": in the rest
\*   "bad_json"      has both, but is no OnchainLogEvent
\*   "json"          parses to the OnchainLogEvent `parsed`
LogLine(shape, parsed) == [shape |-> shape, parsed |-> parsed]

NoOnchainEvent == OnchainLogEvent("", "", "", None, 0, 0)

\* The kinds the model's log lines name; "OfferExpired" is no EventType.
LineKinds == {"OfferCreated", "OfferCancelled", "OfferExpired"}

LogLines ==
    { LogLine(sh, NoOnchainEvent) : sh \in {"no_prefix", "no_event_key", "bad_json"} }
    \cup { LogLine("json", OnchainLogEvent(k, "42", "mk", None, 1, 2)) :
             k \in LineKinds }

\* line.strip_prefix(PREFIX) is Some
HasPrefix(line) == line.shape # "no_prefix"
\* json.contains(r#""event":"#)
HasEventKey(line) == line.shape \in {"bad_json", "json"}
\* serde_json::from_str::<OnchainLogEvent>(json) is Ok
Parses(line) == line.shape = "json"

\* Mutant of MapEventKind: a kind outside the three is passed on as it is.
MapEventKind_Lenient(event) == <<event>>

\* match parsed.event.as_str(): <<event_type>> or <<>> for `_ => continue`
MapEventKind(event) == IF event \in EventType THEN <<event>> ELSE <<>>

\* The line passes every `continue` of the loop body.
IsEventLine(line) ==
    /\ HasPrefix(line)
    /\ HasEventKey(line)
    /\ Parses(line)
    /\ MapEventKind(line.parsed.event) # <<>>

\* Mutant of BuildEvent: the event_id drawn from the ingestion clock.
BuildEvent_IdFromClock(cluster, slot, sig, log_index, parsed, now) ==
    [NormalizedEvent(format_event_id(sig, now),
                     MapEventKind(parsed.event)[1], slot, sig, parsed.offer_id,
                     parsed.maker, parsed.taker, ToString(parsed.amount_a),
                     ToString(parsed.amount_b), now)
        EXCEPT !.cluster = cluster]

\* let ev = NormalizedEvent { event_id, event_type, cluster, slot, ... }
BuildEvent(cluster, slot, sig, log_index, parsed, now) ==
    [NormalizedEvent(format_event_id(sig, log_index),
                     MapEventKind(parsed.event)[1], slot, sig, parsed.offer_id,
                     parsed.maker, parsed.taker, ToString(parsed.amount_a),
                     ToString(parsed.amount_b), now)
        EXCEPT !.cluster = cluster]

\* value.logs.iter().enumerate(): the zero-based index of position i.
Enumerate(i) == i - 1

Clusters == {"localnet", "devnet"}
Times == 0..MaxTime

\* The notifications of the logs subscription: RpcLogsResponse with its
\* context slot, for the transaction of each slot of the ledger.
Notifications ==
    { [slot |-> s, signature |-> SigOfSlot(s), err |-> e, logs |-> logs] :
        s \in Slots, e \in BOOLEAN,
        logs \in UNION { [1..n -> LogLines] : n \in 0..MaxLines } }

\* The positions of value.logs that hold an event line.
EventLineIdx(resp) == { j \in DOMAIN resp.logs : IsEventLine(resp.logs[j]) }

\* let record = FutureRecord::to(&args.kafka_topic).key(&ev.offer_id)...:
\* the key of the record that carries the event of msg.
RecordKey(msg) == msg.ev.offer_id

RECURSIVE PublishLines_Reversed(_, _, _, _, _)
\* Mutant of PublishLines: a later line reaches the topic before an earlier
\* one.
PublishLines_Reversed(cluster, resp, i, nows, sent) ==
    IF i > Len(resp.logs) THEN <<>>
    ELSE LET line == resp.logs[i]
             rest == PublishLines_Reversed(cluster, resp, i + 1, nows, sent)
         IN  IF IsEventLine(line) /\ sent[i]
             THEN rest \o
                  <<[valid |-> TRUE,
                     ev |-> BuildEvent(cluster, resp.slot, resp.signature,
                                       Enumerate(i), line.parsed, nows[i])]>>
             ELSE rest

RECURSIVE PublishLines_Retrying(_, _, _, _, _)
\* Mutant of PublishLines: a send that failed is repeated until it delivers.
PublishLines_Retrying(cluster, resp, i, nows, sent) ==
    IF i > Len(resp.logs) THEN <<>>
    ELSE LET line == resp.logs[i]
             rest == PublishLines_Retrying(cluster, resp, i + 1, nows, sent)
         IN  IF IsEventLine(line)
             THEN <<[valid |-> TRUE,
                     ev |-> BuildEvent(cluster, resp.slot, resp.signature,
                                       Enumerate(i), line.parsed, nows[i])]>>
                  \o rest
             ELSE rest

RECURSIVE PublishLines(_, _, _, _, _)
\* The for loop over value.logs from position i on: the messages that reach
\* the topic, in order.  nows[i] is what now_ms() returns for line i and
\* sent[i] whether producer.send(...) delivered it within its timeout.
PublishLines(cluster, resp, i, nows, sent) ==
    IF i > Len(resp.logs) THEN <<>>
    ELSE LET line == resp.logs[i]
             rest == PublishLines(cluster, resp, i + 1, nows, sent)
         IN  IF IsEventLine(line) /\ sent[i]
             THEN <<[valid |-> TRUE,
                     ev |-> BuildEvent(cluster, resp.slot, resp.signature,
                                       Enumerate(i), line.parsed, nows[i])]>>
                  \o rest
             ELSE rest

\* The publish attempts of the for loop, as [signature, log_index, event_id]
\* with log_index the position of the line in value.logs.
AttemptsOf(cluster, resp, nows) ==
    { [signature |-> resp.signature, log_index |-> i - 1,
       event_id |-> BuildEvent(cluster, resp.slot, resp.signature, Enumerate(i),
                               resp.logs[i].parsed, nows[i]).event_id] :
        i \in EventLineIdx(resp) }

\* The lines for which the loop body reads the clock and calls
\* producer.send: none when the transaction failed.
SendIdx(resp) == IF resp.err THEN {} ELSE EventLineIdx(resp)

\* Mutant of ProcessNotification: value.err is not looked at; the lines of a
\* failed transaction are stamped 0 and their sends deliver.
ProcessNotification_IgnoreErr(cluster, resp, nows, sent) ==
    LET nowsAll == [i \in EventLineIdx(resp) |->
                       IF i \in DOMAIN nows THEN nows[i] ELSE 0]
        sentAll == [i \in EventLineIdx(resp) |->
                       IF i \in DOMAIN sent THEN sent[i] ELSE TRUE]
    IN  [published |-> PublishLines(cluster, resp, 1, nowsAll, sentAll),
         attempts  |-> AttemptsOf(cluster, resp, nowsAll)]

\* What the loop body does with the notification resp in a process of the
\* given cluster, when now_ms() returns nows[i] at line i and the send of
\* line i delivers iff sent[i]: the messages it gets onto the topic and the
\* publish attempts it makes.
ProcessNotification(cluster, resp, nows, sent) ==
    IF resp.err
    THEN \* value.err.is_some(): continue
         [published |-> <<>>, attempts |-> {}]
    ELSE [published |-> PublishLines(cluster, resp, 1, nows, sent),
          attempts  |-> AttemptsOf(cluster, resp, nows)]

\* The same, for every reading of the clock and every outcome of
\* producer.send.
NotifyOutcomesOf(cluster, resp) ==
    { ProcessNotification(cluster, resp, nows, sent) :
        nows \in [SendIdx(resp) -> Times],
        sent \in [SendIdx(resp) -> BOOLEAN] }

\* The same, over all notifications.
NotifyOutcomes ==
    [cluster \in Clusters |->
        UNION { NotifyOutcomesOf(cluster, resp) : resp \in Notifications }]

\* One iteration of the loop whose select takes the stream.next() arm with
\* Some(resp).
ListenerNotify ==
    /\ lState = "running"
    /\ \E out \in NotifyOutcomes[lCluster] :
          /\ Len(topic) + Len(out.published) <= MaxLog
          /\ topic' = topic \o out.published
          /\ hAttempts' = hAttempts \cup out.attempts
    /\ UNCHANGED <<lState, lSignal, lCluster>>
    /\ UNCHANGED <<wvars, rvars, fvars>>

\* The process receives the interrupt signal: its ctrl_c() future resolves
\* and stays resolved.
ListenerSignal ==
    /\ lState = "running"
    /\ ~lSignal
    /\ lSignal' = TRUE
    /\ UNCHANGED <<topic, lState, lCluster, hAttempts>>
    /\ UNCHANGED <<wvars, rvars, fvars>>

\* The select takes the shutdown arm, which is ready once the signal has
\* fired: break, then client.shutdown().
ListenerShutdown ==
    /\ lState = "running"
    /\ lSignal
    /\ lState' = "stopped"
    /\ UNCHANGED <<topic, lSignal, lCluster, hAttempts>>
    /\ UNCHANGED <<wvars, rvars, fvars>>

\* The select takes the stream.next() arm with None, the logs subscription
\* having ended (the websocket was closed): `else { break; }`, then
\* client.shutdown() and Ok(()).
ListenerStreamEnd ==
    /\ lState = "running"
    /\ lState' = "exited"
    /\ UNCHANGED <<topic, lSignal, lCluster, hAttempts>>
    /\ UNCHANGED <<wvars, rvars, fvars>>

\* The process is started again, with whatever --cluster it is given.
ListenerRestart ==
    /\ lState # "running"
    /\ lState' = "running"
    /\ lSignal' = FALSE
    /\ \E c \in Clusters : lCluster' = c
    /\ UNCHANGED <<topic, hAttempts>>
    /\ UNCHANGED <<wvars, rvars, fvars>>

(***************************************************************************)
(* risk-engine                                                             *)
(***************************************************************************)
Makers == {"mkA", "mkB"}
Clock == 0..MaxClock

\* The events the risk-engine model consumes: all of offer 42 and of the
\* transaction of slot 1 (which creates the offer and fills or cancels it);
\* amount "5" reaches large_amount_threshold, "1" does not.
RiskEvent(ty, maker, amt_a) ==
    NormalizedEvent(format_event_id(SigOfSlot(1), LogIndexOf[ty]), ty, 1,
                    SigOfSlot(1), "42", maker, None, amt_a, "1", 0)

RiskEvents ==
    { RiskEvent("OfferCancelled", mk, "1") : mk \in Makers }
    \cup { RiskEvent(ty, "mkA", "5") : ty \in {"OfferCreated", "OfferFilled"} }

RiskMessages == { [valid |-> TRUE, ev |-> e] : e \in RiskEvents } \cup {Garbage}

\* struct AlertEvent
AlertEvent(id, rule, severity, maker, offer, ts, details) ==
    [alert_id |-> id, rule_id |-> rule, severity |-> severity, maker |-> maker,
     offer_id |-> offer, ts_ms |-> ts, details |-> details]

\* format!("large_amount:{}:{}:{}", ev.offer_id, ev.signature, ev.slot)
LargeAlertId(ev) ==
    "large_amount:" \o ev.offer_id \o ":" \o ev.signature \o ":" \o ToString(ev.slot)

\* Mutant of large_amount_rule: an amount equal to the threshold does not count.
large_amount_rule_Strict(ev, threshold, now) ==
    LET a == unwrap_or(parse_u64_str(ev.amount_a), 0)
        b == unwrap_or(parse_u64_str(ev.amount_b), 0)
    IN  IF a <= threshold /\ b <= threshold
        THEN <<>>
        ELSE <<AlertEvent("large_amount:" \o ev.offer_id \o ":" \o ev.signature
                              \o ":" \o ToString(ev.slot),
                          "large_amount", "high", ev.maker, ev.offer_id, now,
                          <<ev.amount_a, ev.amount_b, threshold, ev.event_type>>)>>

\* large_amount_rule(ev, threshold): <<alert>> is Some(alert), <<>> is None;
\* now is what now_ms() returns.
large_amount_rule(ev, threshold, now) ==
    LET a == unwrap_or(parse_u64_str(ev.amount_a), 0)
        b == unwrap_or(parse_u64_str(ev.amount_b), 0)
    IN  IF a < threshold /\ b < threshold
        THEN <<>>
        ELSE <<AlertEvent(LargeAlertId(ev), "large_amount", "high", ev.maker,
                          ev.offer_id, now,
                          <<ev.amount_a, ev.amount_b, threshold, ev.event_type>>)>>

\* Mutant of AlreadyEmitted: the de-dupe set is never consulted.
AlreadyEmitted_Never(emitted, alert_id) == FALSE

\* !emitted_alerts.insert(alert_id): the id was in the set already.
AlreadyEmitted(emitted, alert_id) == alert_id \in emitted

\* Mutant of emit_alert: the alert_id is entered into the de-dupe set only
\* when the send got through.
emit_alert_InsertOnDelivery(st, alert, delivered) ==
    IF AlreadyEmitted(st.emitted, alert.alert_id)
    THEN st
    ELSE [emitted |-> IF delivered THEN st.emitted \cup {alert.alert_id}
                      ELSE st.emitted,
          alerts  |-> IF delivered THEN Append(st.alerts, alert) ELSE st.alerts,
          sends   |-> Append(st.sends, alert.alert_id)]

\* emit_alert(producer, alerts_topic, emitted_alerts, alert) on the state
\* st = [emitted, alerts, sends]; delivered is whether producer.send got the
\* record to the topic within its timeout (its result is dropped).
emit_alert(st, alert, delivered) ==
    IF AlreadyEmitted(st.emitted, alert.alert_id)
    THEN st
    ELSE [emitted |-> st.emitted \cup {alert.alert_id},
          alerts  |-> IF delivered THEN Append(st.alerts, alert) ELSE st.alerts,
          sends   |-> Append(st.sends, alert.alert_id)]

\* now.saturating_sub(front)
saturating_sub(a, b) == IF a >= b THEN a - b ELSE 0

RECURSIVE Evict_AtWindow(_, _)
\* Mutant of Evict: an entry exactly window_ms old is evicted too.
Evict_AtWindow(q, now) ==
    IF q # <<>> /\ saturating_sub(now, Head(q)) >= window_ms
    THEN Evict_AtWindow(Tail(q), now)
    ELSE q

RECURSIVE Evict(_, _)
\* while let Some(front) = q.front() { if now - front > window_ms { pop_front } else { break } }
Evict(q, now) ==
    IF q # <<>> /\ saturating_sub(now, Head(q)) > window_ms
    THEN Evict(Tail(q), now)
    ELSE q

\* Mutant of WindowStart: the anchor taken from the clock, not the queue.
WindowStart_Now(q, now) == now

\* q.front().copied().unwrap_or(now)
WindowStart(q, now) == IF q # <<>> THEN Head(q) ELSE now

\* format!("freq_cancel:{}:{}:{}", ev.maker, window_start, args.cancel_threshold)
FreqAlertId(maker, window_start) ==
    "freq_cancel:" \o maker \o ":" \o ToString(window_start) \o ":"
        \o ToString(cancel_threshold)

\* cancels.entry(maker).or_default()
QueueOf(map, maker) == IF maker \in DOMAIN map THEN map[maker] ELSE <<>>

\* consumer.commit_message(&msg, CommitMode::Async) of the risk-engine.
RiskCommit(off, delivered) ==
    /\ rIssued' = off
    /\ rCommitted' = IF delivered THEN off ELSE rCommitted

\* What now_ms() can return where the code calls it (0 stands in where it
\* does not).
NowIf(called) == IF called THEN Clock ELSE {0}

\* Whether producer.send delivers, where the code calls it.
DeliveredIf(called) == IF called THEN BOOLEAN ELSE {FALSE}

\* Rule 1 produces an alert for ev, and emit_alert gets as far as the send.
LargeFires(ev) == large_amount_rule(ev, large_amount_threshold, 0) # <<>>
LargeSends(ev) == LargeFires(ev) /\ ~AlreadyEmitted(emitted_alerts, LargeAlertId(ev))

\* One iteration of the loop whose select takes the stream.next() arm with
\* Some(Ok(msg)).
RiskPoll ==
    /\ rState = "running"
    /\ rPos <= Len(topic)
    /\ rPos' = rPos + 1
    /\ \E committed \in BOOLEAN : RiskCommit(rPos, committed)
    /\ LET msg == topic[rPos]
           ev  == msg.ev
           st0 == [emitted |-> emitted_alerts, alerts |-> alerts, sends |-> hSends]
       IN  \/ \* payload_view fails or serde_json::from_str fails
              /\ ~msg.valid
              /\ UNCHANGED <<cancels, emitted_alerts, alerts, hSends, hCancels, hFreq>>
           \/ \* rule 1 only
              /\ msg.valid
              /\ ev.event_type # "OfferCancelled"
              /\ \E now1 \in NowIf(LargeFires(ev)), sent1 \in DeliveredIf(LargeSends(ev)) :
                    LET la  == large_amount_rule(ev, large_amount_threshold, now1)
                        st1 == IF la # <<>> THEN emit_alert(st0, la[1], sent1) ELSE st0
                    IN  /\ emitted_alerts' = st1.emitted
                        /\ alerts' = st1.alerts
                        /\ hSends' = st1.sends
              /\ UNCHANGED <<cancels, hCancels, hFreq>>
           \/ \* rule 1, then rule 2: frequent cancel
              /\ msg.valid
              /\ ev.event_type = "OfferCancelled"
              /\ \E now1 \in NowIf(LargeFires(ev)), sent1 \in DeliveredIf(LargeSends(ev)),
                    now \in Clock :
                    LET la  == large_amount_rule(ev, large_amount_threshold, now1)
                        st1 == IF la # <<>> THEN emit_alert(st0, la[1], sent1) ELSE st0
                        q   == Evict(Append(QueueOf(cancels, ev.maker), now), now)
                        hit == Len(q) >= cancel_threshold
                        id  == FreqAlertId(ev.maker, WindowStart(q, now))
                        fa  == AlertEvent(id, "freq_cancel", "medium", ev.maker,
                                          ev.offer_id, now,
                                          <<window_ms, Len(q), cancel_threshold>>)
                    IN  \E sent2 \in DeliveredIf(hit /\ ~AlreadyEmitted(st1.emitted, id)) :
                        LET st2 == IF hit THEN emit_alert(st1, fa, sent2) ELSE st1 IN
                        /\ cancels' = [m \in DOMAIN cancels \cup {ev.maker} |->
                                          IF m = ev.maker THEN q ELSE cancels[m]]
                        /\ emitted_alerts' = st2.emitted
                        /\ alerts' = st2.alerts
                        /\ hSends' = st2.sends
                        /\ hCancels' = [hCancels EXCEPT ![ev.maker] = Append(@, now)]
                        /\ hFreq' = IF hit
                                    THEN [hFreq EXCEPT ![ev.maker] =
                                            Append(@, [n |-> Len(hCancels[ev.maker]) + 1,
                                                       alert_id |-> id,
                                                       sent |-> st2.sends # st1.sends])]
                                    ELSE hFreq
    /\ UNCHANGED <<topic, rState, rSignal, rLives>>
    /\ UNCHANGED <<wvars, lvars, fvars>>

\* The process receives the interrupt signal: its ctrl_c() future resolves
\* and stays resolved.
RiskSignal ==
    /\ rState = "running"
    /\ ~rSignal
    /\ rSignal' = TRUE
    /\ UNCHANGED <<topic, rState, rPos, rCommitted, rIssued, cancels, emitted_alerts,
                   alerts,
                   rLives, hSends, hCancels, hFreq>>
    /\ UNCHANGED <<wvars, lvars, fvars>>

\* The select takes the shutdown arm, which is ready once the signal has
\* fired: break.
RiskShutdown ==
    /\ rState = "running"
    /\ rSignal
    /\ rState' = "stopped"
    /\ UNCHANGED <<topic, rSignal, rPos, rCommitted, rIssued, cancels, emitted_alerts,
                   alerts, rLives,
                   hSends, hCancels, hFreq>>
    /\ UNCHANGED <<wvars, lvars, fvars>>

\* The process starts again: cancels and emitted_alerts start empty, the
\* consumer of group risk-engine-v1 resumes at the committed offset.
RiskRestart ==
    /\ rLives < MaxRestarts
    /\ rLives' = rLives + 1
    /\ rState' = "running"
    /\ rSignal' = FALSE
    /\ rPos' = rCommitted + 1
    /\ rIssued' = rCommitted
    /\ cancels' = <<>>
    /\ emitted_alerts' = {}
    /\ hSends' = <<>>
    /\ hCancels' = [m \in Makers |-> <<>>]
    /\ hFreq' = [m \in Makers |-> <<>>]
    /\ UNCHANGED <<topic, rCommitted, alerts>>
    /\ UNCHANGED <<wvars, lvars, fvars>>

\* A producer (the listener) appends a message to the partition.
RiskPublish ==
    /\ Len(topic) < MaxRiskLog
    /\ \E m \in RiskMessages : topic' = Append(topic, m)
    /\ UNCHANGED rvars
    /\ UNCHANGED <<wvars, lvars, fvars>>

(***************************************************************************)
(* Single calls of the functions of the services, on inputs of their types *)
(***************************************************************************)
\* The amount strings a NormalizedEvent can carry, each with the u64 it
\* denotes (0 where str::parse::<u64> gives an error).
AmountInputs ==
    { [text |-> ToString(n), value |-> n] : n \in 0..U64Max }
    \cup { [text |-> "+" \o ToString(n), value |-> n] : n \in {0, U64Max} }
    \cup { [text |-> "0" \o ToString(n), value |-> n] : n \in {0, U64Max} }
    \cup { [text |-> t, value |-> 0] :
              t \in {"", "x", "-1", "1.5", " 1", ToString(U64Max + 1)} }

\* One call large_amount_rule(&ev, threshold), for any event and any u64
\* threshold (a behaviour makes one call).
CallLargeAmountRule ==
    /\ call.fn = "none"
    /\ \E ty \in EventType, s \in Slots, a \in AmountInputs, b \in AmountInputs,
          threshold \in 0..U64Max, now \in {0, MaxClock} :
          LET ev == NormalizedEvent(format_event_id(SigOfSlot(s), LogIndexOf[ty]),
                                    ty, s, SigOfSlot(s), "42", "mkA", None,
                                    a.text, b.text, 0)
          IN  /\ call' = [fn |-> "large_amount_rule", ev |-> ev,
                          threshold |-> threshold,
                          value_a |-> a.value, value_b |-> b.value]
              /\ ret' = large_amount_rule(ev, threshold, now)
    /\ UNCHANGED <<topic, wvars, lvars, rvars>>

\* One pass of the listener's loop body over the notification resp, in a
\* process of any cluster: what it gets onto the topic and the publish
\* attempts it makes, with the outcome of each send.
CallProcessNotification ==
    /\ call.fn = "none"
    /\ \E cluster \in Clusters, resp \in Notifications :
          \E nows \in [SendIdx(resp) -> Times], sent \in [SendIdx(resp) -> BOOLEAN] :
              /\ call' = [fn |-> "process_notification", cluster |-> cluster,
                          resp |-> resp, sent |-> sent]
              /\ ret' = ProcessNotification(cluster, resp, nows, sent)
    /\ UNCHANGED <<topic, wvars, lvars, rvars>>

\* The ledger delivers the same notification once more and the loop body
\* runs over it again, at other clock readings and with other outcomes of
\* the sends; `first` keeps what the first pass returned.
CallRedeliverNotification ==
    /\ call.fn = "process_notification"
    /\ LET resp == call.resp IN
       \E nows \in [SendIdx(resp) -> Times], sent \in [SendIdx(resp) -> BOOLEAN] :
          /\ call' = [fn |-> "redelivered_notification", cluster |-> call.cluster,
                      resp |-> resp, sent |-> sent, first |-> ret,
                      first_sent |-> call.sent]
          /\ ret' = ProcessNotification(call.cluster, resp, nows, sent)
    /\ UNCHANGED <<topic, wvars, lvars, rvars>>

\* The number of calls of handle_event one behaviour makes on the database.
MaxCalls == 2

\* handle_event(db, &ev) called directly, MaxCalls times at most, on the
\* database as the calls before left it: ev is a Created event of offer 42
\* of any slot with any amount strings, and both statements succeed.
CallHandleEvent ==
    /\ \/ call.fn = "none"
       \/ call.fn = "handle_event" /\ call.n < MaxCalls
    /\ \E s \in Slots, a \in AmountInputs, b \in AmountInputs :
          LET ev == NormalizedEvent(
                        format_event_id(SigOfSlot(s), LogIndexOf["OfferCreated"]),
                        "OfferCreated", s, SigOfSlot(s), "42", "mk", None,
                        a.text, b.text, 0)
          IN  /\ call' = [fn |-> "handle_event", ev |-> ev,
                          value_a |-> a.value, value_b |-> b.value,
                          n |-> IF call.fn = "none" THEN 1 ELSE call.n + 1]
              /\ handle_event(ev, "ok")
    /\ UNCHANGED <<topic, wState, wSignal, wPos, wCommitted, wIssued,
                   lvars, rvars, ret>>

(***************************************************************************)
(* Specifications: one per service, each over the topic it reads or writes *)
(***************************************************************************)
\* The three processes right after startup, each in its loop.
ServicesInit ==
    /\ wState = "running"
    /\ wSignal = FALSE
    /\ wPos = 1
    /\ wCommitted = 0
    /\ wIssued = 0
    /\ events = <<>>
    /\ offers = <<>>
    /\ hInserted = {}
    /\ hUpserted = [o \in OfferIds |-> {}]
    /\ hFirst = [o \in OfferIds |-> {}]
    /\ hLast = [o \in OfferIds |-> {}]
    /\ lState = "running"
    /\ lSignal = FALSE
    /\ lCluster = "localnet"
    /\ hAttempts = {}
    /\ rState = "running"
    /\ rSignal = FALSE
    /\ rPos = 1
    /\ rCommitted = 0
    /\ rIssued = 0
    /\ cancels = <<>>
    /\ emitted_alerts = {}
    /\ alerts = <<>>
    /\ rLives = 0
    /\ hSends = <<>>
    /\ hCancels = [m \in Makers |-> <<>>]
    /\ hFreq = [m \in Makers |-> <<>>]
    /\ call = [fn |-> "none"]
    /\ ret = <<>>

\* The services start on an empty topic.
Init ==
    /\ topic = <<>>
    /\ ServicesInit

WriterNext ==
    \/ WriterPublish
    \/ WriterPoll
    \/ WriterSignal
    \/ WriterShutdown
    \/ WriterRestart

WriterSpec == Init /\ [][WriterNext]_vars

\* The storage-writer as a process that is kept alive and never told to
\* stop: the process is started again (or its consumer group rebalances)
\* time and again, and a message the loop arrives at time and again is taken
\* time and again (the process is not always ended just before it).
WriterRetryNext ==
    \/ WriterPublish
    \/ WriterPoll
    \/ WriterRestart

WriterRetrySpec ==
    /\ Init
    /\ [][WriterRetryNext]_vars
    /\ WF_vars(WriterRestart)
    /\ \A i \in 1..MaxLog : SF_vars(WriterPoll /\ wPos = i)

ListenerNext ==
    \/ ListenerNotify
    \/ ListenerSignal
    \/ ListenerShutdown
    \/ ListenerStreamEnd
    \/ ListenerRestart

ListenerSpec == Init /\ [][ListenerNext]_vars

RiskNext ==
    \/ RiskPublish
    \/ RiskPoll
    \/ RiskSignal
    \/ RiskShutdown
    \/ RiskRestart

RiskSpec == Init /\ [][RiskNext]_vars

\* The two consumer groups, storage-writer-v1 and risk-engine-v1, start on a
\* topic that already holds MaxLog messages (auto.offset.reset = earliest:
\* both read it from the first message on).
ConsumersInit ==
    /\ topic \in [1..MaxLog -> RiskMessages]
    /\ ServicesInit

ConsumersNext ==
    \/ WriterPoll
    \/ WriterSignal
    \/ WriterShutdown
    \/ RiskPoll
    \/ RiskSignal
    \/ RiskShutdown

ConsumersSpec == ConsumersInit /\ [][ConsumersNext]_vars

\* The three services together, started on a topic that already holds
\* MaxLog messages, a Cancelled event and undecodable ones behind it, so that
\* each consumer has messages to take when its signal fires.
StopInit ==
    /\ topic = [i \in 1..MaxLog |->
                  IF i = 1
                  THEN [valid |-> TRUE, ev |-> RiskEvent("OfferCancelled", "mkA", "1")]
                  ELSE Garbage]
    /\ ServicesInit

StopNext ==
    \/ ListenerNotify
    \/ ListenerSignal
    \/ ListenerShutdown
    \/ ListenerStreamEnd
    \/ WriterPoll
    \/ WriterSignal
    \/ WriterShutdown
    \/ RiskPoll
    \/ RiskSignal
    \/ RiskShutdown

\* tokio::select! polls its arms in random order: a shutdown arm that is
\* ready is not passed over forever.
StopSpec ==
    /\ StopInit
    /\ [][StopNext]_vars
    /\ WF_vars(ListenerShutdown)
    /\ WF_vars(WriterShutdown)
    /\ WF_vars(RiskShutdown)

CallNext ==
    \/ CallLargeAmountRule
    \/ CallProcessNotification
    \/ CallRedeliverNotification

CallSpec == Init /\ [][CallNext]_vars

\* handle_event alone, on events with any amount strings.
HandleEventNext == CallHandleEvent

HandleEventSpec == Init /\ [][HandleEventNext]_vars

(***************************************************************************)
(* storage-writer: properties                                              *)
(***************************************************************************)
AuditCount(id) == Cardinality({ i \in DOMAIN events : events[i].event_id = id })

\* C1: audit idempotence.  Whatever was delivered, table events never holds
\* two rows of one event_id, and an event_id whose audit insert has run N >= 1
\* times (deliveries that got as far as the statement; a delivery on which
\* the store is unreachable writes nothing) has exactly one row.
C1_AuditIdempotent ==
    \A id \in EventIds :
        /\ AuditCount(id) <= 1
        /\ id \in hInserted => AuditCount(id) = 1

\* C1 witness: an event was handled first and last, and another event in
\* between, so its audit insert ran at least twice, interleaved with another
\* event_id; it has its single row.
C1_Witness ==
    \E o \in OfferIds : \E e \in hFirst[o], other \in hUpserted[o] :
        /\ hLast[o] = {e}
        /\ other.event_id # e.event_id
        /\ AuditCount(e.event_id) = 1

RECURSIVE ApplyInLedgerOrder(_, _)
\* The offers table after upserting the events of S once each, lowest slot
\* first, starting from tbl.
ApplyInLedgerOrder(tbl, S) ==
    IF S = {} THEN tbl
    ELSE LET e == CHOOSE x \in S : \A y \in S : x.slot <= y.slot
         IN  ApplyInLedgerOrder(UpsertOffer(tbl, e), S \ {e})

DistinctSlots(S) == \A x, y \in S : x.slot = y.slot => x = y

\* C2: order independence.  Once a set of events of one offer_id (here: of
\* pairwise different slots, so that ledger order is the order of the slots)
\* has been applied, in whatever arrival order and however often, the row of
\* the offer equals the row that applying them once each in ledger order
\* gives.
C2_OrderIndependent ==
    \A o \in OfferIds :
        (hUpserted[o] # {} /\ DistinctSlots(hUpserted[o]))
            => offers[o] = ApplyInLedgerOrder(<<>>, hUpserted[o])[o]

\* C3: the stored updated_slot of an offer never decreases, and a row once
\* there stays.
C3_MonotonicSequence ==
    [][\A o \in DOMAIN offers :
          /\ o \in DOMAIN offers'
          /\ offers'[o].updated_slot >= offers[o].updated_slot]_vars

\* C3 witness: events arrived out of order (the higher slot was applied
\* first, the lower slot last) and the row carries the higher slot.
C3_Witness ==
    \E o \in DOMAIN offers :
        \E f \in hFirst[o], l \in hLast[o] :
            /\ l.slot < f.slot
            /\ offers[o].updated_slot = AsI64(f.slot)

\* The step is an iteration of the storage-writer loop that hands the event
\* ev to handle_event.
WriterHandles(ev) ==
    /\ wState = "running"
    /\ wPos <= Len(topic)
    /\ wPos' = wPos + 1
    /\ topic[wPos].valid
    /\ topic[wPos].ev = ev

\* C4: an event whose sequence is less than or equal to the stored
\* updated_slot of its offer leaves the row of the offer unchanged.
C4_StaleOrEqualNoOp ==
    [][\A ev \in WriterEvents :
          (/\ WriterHandles(ev)
           /\ ev.offer_id \in DOMAIN offers
           /\ AsI64(ev.slot) <= offers[ev.offer_id].updated_slot)
              => offers'[ev.offer_id] = offers[ev.offer_id]]_vars

IsKindAt(e, ty, s) == e.event_type = ty /\ e.slot = s

\* C5: the redelivery scenario.  If the events applied to an offer are
\* Created(s1) and Filled(s2) with s1 < s2, Created first and Filled at least
\* once, then whatever was redelivered and in whatever order, the row is
\* status=filled, created_slot=s1, updated_slot=s2.
C5_RedeliveryScenario ==
    \A o \in OfferIds : \A s1, s2 \in Slots :
        (/\ s1 < s2
         /\ \E f \in hFirst[o] : IsKindAt(f, "OfferCreated", s1)
         /\ \E e \in hUpserted[o] : IsKindAt(e, "OfferFilled", s2)
         /\ \A e \in hUpserted[o] :
               IsKindAt(e, "OfferCreated", s1) \/ IsKindAt(e, "OfferFilled", s2))
            => /\ offers[o].status = "filled"
               /\ offers[o].created_slot = s1
               /\ offers[o].updated_slot = s2

\* C5 witness: Created(s1) was applied first, Filled(s2) after it, and the
\* last event applied is a late redelivery of Created(s1); the row is filled.
C5_Witness ==
    \E o \in DOMAIN offers : \E s1, s2 \in Slots :
        /\ s1 < s2
        /\ \E f \in hFirst[o] : IsKindAt(f, "OfferCreated", s1)
        /\ \E e \in hUpserted[o] : IsKindAt(e, "OfferFilled", s2)
        /\ \A e \in hUpserted[o] :
              IsKindAt(e, "OfferCreated", s1) \/ IsKindAt(e, "OfferFilled", s2)
        /\ \E l \in hLast[o] : IsKindAt(l, "OfferCreated", s1)
        /\ offers[o].status = "filled"

\* C6: the committed offset covers no decodable event whose handle_event has
\* not succeeded.
C6_CommittedOnlyPersisted ==
    \A i \in 1..wCommitted :
        topic[i].valid => topic[i].ev \in hUpserted[topic[i].ev.offer_id]

\* The step's handle_event returned Ok (the loop issued the commit of the
\* message it took).
HandleOk == wIssued' = wPos

\* C20: the guard of the projection upsert.  When handle_event runs to its
\* end on an event whose offer has a row already, the row afterwards carries
\* the event's status, maker, taker, mints, amounts and updated_slot, and
\* its old created_slot, if the event's slot is greater than or equal to the
\* stored updated_slot, and is the row as it was if the event's slot is
\* smaller; a handle_event that fails leaves the row as it was.
C20_UpsertGuard ==
    [][\A ev \in WriterEvents :
          (WriterHandles(ev) /\ ev.offer_id \in DOMAIN offers) =>
              LET o   == ev.offer_id
                  old == offers[o]
                  new == offers'[o]
                  in  == AsI64(ev.slot)
              IN  /\ (HandleOk /\ in >= old.updated_slot) =>
                        /\ new.status = StatusTaker(ev)[1]
                        /\ new.maker = ev.maker
                        /\ new.taker = StatusTaker(ev)[2]
                        /\ new.mint_a = ev.mint_a /\ new.mint_b = ev.mint_b
                        /\ new.amount_a = AmountI64(ev.amount_a)
                        /\ new.amount_b = AmountI64(ev.amount_b)
                        /\ new.updated_slot = in
                        /\ new.created_slot = old.created_slot
                  /\ (HandleOk /\ in < old.updated_slot) => new = old
                  /\ ~HandleOk => new = old]_vars

\* C20 witness: Created and Cancelled of one slot were applied to one offer,
\* Cancelled last: the row was overwritten at an equal updated_slot.
C20_Witness ==
    \E o \in DOMAIN offers :
        \E f \in hFirst[o], l \in hLast[o] :
            /\ hUpserted[o] = {f, l}
            /\ f.event_type = "OfferCreated" /\ l.event_type = "OfferCancelled"
            /\ f.slot = l.slot
            /\ offers[o].status = "cancelled"
            /\ offers[o].updated_slot = AsI64(l.slot)

\* The step is an iteration of the storage-writer loop whose handle_event
\* returned an error.
WriterFails ==
    /\ wState = "running" /\ wPos <= Len(topic) /\ wPos' = wPos + 1
    /\ topic[wPos].valid
    /\ wIssued' # wPos

\* The event at offset i was handed to handle_event, which failed: the loop
\* is past it and it is not in both tables.
PassedOver(i) ==
    /\ i <= Len(topic) /\ topic[i].valid
    /\ wPos > i
    /\ topic[i].ev \notin hUpserted[topic[i].ev.offer_id]

\* The event at offset i has its audit row and its projection upsert.
Persisted(i) ==
    /\ i <= Len(topic)
    /\ topic[i].ev.event_id \in hInserted
    /\ topic[i].ev \in hUpserted[topic[i].ev.offer_id]

\* C21: failed writes are retried until they succeed.  If from some point on
\* no handle_event fails, every event whose handle_event failed is
\* eventually in both tables.
C21_FailedWritesRetried ==
    (<>[][~WriterFails]_vars) =>
        \A i \in 1..MaxLog : PassedOver(i) ~> Persisted(i)

\* C22: created_slot is write-once.  The created_slot of a row is the slot
\* of the first event applied to its offer, and no step changes the
\* created_slot of a row that exists.
C22_CreatedSlotWriteOnce ==
    /\ [](\A o \in DOMAIN offers :
             \E f \in hFirst[o] : offers[o].created_slot = AsI64(f.slot))
    /\ [][\A o \in DOMAIN offers :
             /\ o \in DOMAIN offers'
             /\ offers'[o].created_slot = offers[o].created_slot]_vars

\* C22 witness: a later event of a higher slot has overwritten the row, whose
\* created_slot is still the slot of the first event.
C22_Witness ==
    \E o \in DOMAIN offers :
        \E f \in hFirst[o], l \in hLast[o] :
            /\ f.slot < l.slot
            /\ offers[o].updated_slot = AsI64(l.slot)
            /\ offers[o].created_slot = AsI64(f.slot)
            /\ offers[o].status = StatusTaker(l)[1]

\* C23: projection rows originate from Created events.  A row exists for an
\* offer only if a Created event of that offer has been applied, and no step
\* removes a row.
C23_RowsFromCreated ==
    /\ [](\A o \in DOMAIN offers :
             \E e \in hUpserted[o] : e.event_type = "OfferCreated")
    /\ [][\A o \in DOMAIN offers : o \in DOMAIN offers']_vars

\* C24: the two writes of one event are one atomic unit.  Between messages,
\* the audit row of an event_id exists only if the projection upsert of that
\* event has been executed.
C24_WritesAtomic ==
    \A i \in DOMAIN events :
        \E e \in hUpserted[events[i].offer_id] : e.event_id = events[i].event_id

\* C25: audit rows are immutable.  No step changes or removes a row of table
\* events; the table only grows at its end.
C25_AuditRowsImmutable ==
    [][/\ Len(events') >= Len(events)
       /\ \A i \in DOMAIN events : events'[i] = events[i]]_vars

\* C25 witness: handle_event has run to its end on a redelivered copy that
\* has the event_id of an audit row and another ts_ingest_ms, and the row
\* still carries the payload it was inserted with.
C25_Witness ==
    \E i \in DOMAIN events :
        \E e \in hLast[events[i].offer_id] :
            /\ e.event_id = events[i].event_id
            /\ e.ts_ingest_ms # events[i].payload_json.ts_ingest_ms
            /\ events[i].payload_json \in hUpserted[events[i].offer_id]

\* The step's upsert of ev inserts the row of its offer or overwrites it.
UpsertApplies(ev) ==
    /\ WriterHandles(ev)
    /\ HandleOk
    /\ \/ ev.offer_id \notin DOMAIN offers
       \/ AsI64(ev.slot) >= offers[ev.offer_id].updated_slot

\* C26: status derivation.  Whenever handle_event inserts or overwrites the
\* row of an offer, the row's (status, taker) afterwards is (created, none)
\* for a Created event, (filled, the event's taker) for a Filled event and
\* (cancelled, none) for a Cancelled event, whatever taker was stored before.
C26_StatusDerivation ==
    [][\A ev \in WriterEvents :
          UpsertApplies(ev) =>
              LET new == offers'[ev.offer_id] IN
              /\ ev.event_type = "OfferCreated" =>
                    (new.status = "created" /\ new.taker = None)
              /\ ev.event_type = "OfferFilled" =>
                    (new.status = "filled" /\ new.taker = ev.taker)
              /\ ev.event_type = "OfferCancelled" =>
                    (new.status = "cancelled" /\ new.taker = None)]_vars

\* C26 witness: a Filled event with a taker was applied first and a Cancelled
\* event of a later slot last; the row is cancelled and its taker cleared.
C26_Witness ==
    \E o \in DOMAIN offers :
        \E f \in hFirst[o], l \in hLast[o] :
            /\ f.event_type = "OfferFilled" /\ f.taker # None
            /\ l.event_type = "OfferCancelled"
            /\ f.slot < l.slot
            /\ offers[o].status = "cancelled"
            /\ offers[o].taker = None

\* C31: the projection is keyed by offer_id alone and does not enforce the
\* offer lifecycle.  When handle_event runs to its end on an event whose
\* slot is greater than or equal to the stored updated_slot of its offer_id,
\* the one row of that offer_id takes the event's status and maker, whatever
\* status and maker it had: a Created event makes a filled or cancelled row
\* created again, and an event of another maker overwrites the row; no
\* second row appears.
C31_NoLifecycleOneRowPerOffer ==
    [][\A ev \in WriterEvents :
          (UpsertApplies(ev) /\ ev.offer_id \in DOMAIN offers) =>
              LET old == offers[ev.offer_id]
                  new == offers'[ev.offer_id]
              IN  /\ DOMAIN offers' = DOMAIN offers
                  /\ new.maker = ev.maker
                  /\ (ev.event_type = "OfferCreated"
                        /\ old.status \in {"filled", "cancelled"})
                         => new.status = "created"
                  /\ old.maker # ev.maker => new.updated_slot = AsI64(ev.slot)]_vars

\* C31 witness: the offer was filled for one maker, and a Created event of
\* another maker under the same offer_id, of a later slot, was applied last:
\* the one row is created again and belongs to the other maker.
C31_Witness ==
    \E o \in DOMAIN offers :
        \E f \in hFirst[o], l \in hLast[o] :
            /\ f.event_type = "OfferFilled" /\ l.event_type = "OfferCreated"
            /\ f.maker # l.maker
            /\ f.slot < l.slot
            /\ offers[o].status = "created"
            /\ offers[o].maker = l.maker
            /\ offers[o].created_slot = AsI64(f.slot)

(***************************************************************************)
(* listener: properties                                                    *)
(***************************************************************************)
\* C7: event_id determinism.  Every publish attempt for line log_index of
\* the transaction `signature` carries the event_id signature:0:log_index,
\* so two attempts for the same (signature, log_index) carry the same
\* event_id, whatever the clock, the cluster and the earlier notifications.
C7_EventIdDeterministic ==
    \A a \in hAttempts :
        /\ a.event_id = a.signature \o ":0:" \o ToString(a.log_index)
        /\ \A b \in hAttempts :
              (a.signature = b.signature /\ a.log_index = b.log_index)
                  => a.event_id = b.event_id

\* C7 witness: the same line of the same transaction was published twice, at
\* different ingestion times and by processes of different clusters, under
\* one event_id.
C7_Witness ==
    /\ Len(topic) = 2
    /\ topic[1].ev.event_id = topic[2].ev.event_id
    /\ topic[1].ev.ts_ingest_ms # topic[2].ev.ts_ingest_ms
    /\ topic[1].ev.cluster # topic[2].ev.cluster

\* C8: event_id uniqueness.  Publish attempts that stem from different
\* (signature, position of the line in the transaction's log list) pairs
\* carry different event_ids.
C8_EventIdUnique ==
    \A a, b \in hAttempts :
        (a.signature # b.signature \/ a.log_index # b.log_index)
            => a.event_id # b.event_id

\* C8 witness: attempts for two lines of one transaction and for a line of
\* another transaction, the three event_ids pairwise different.
C8_Witness ==
    \E a, b, c \in hAttempts :
        /\ a.signature = b.signature
        /\ a.log_index # b.log_index
        /\ c.signature # a.signature
        /\ c.log_index = a.log_index
        /\ Cardinality({a.event_id, b.event_id, c.event_id}) = 3

\* The position, in its transaction's log list, of the line the published
\* message stems from.
LineOf(msg) ==
    CHOOSE k \in 0..(MaxLines - 1) :
        msg.ev.event_id = format_event_id(msg.ev.signature, k)

\* C12: per-offer order of publication.  A step of the listener leaves what
\* is on the topic where it is and appends the events of one notification;
\* of two appended events under the same key offer_id, the one of the
\* earlier line comes first.  So events of one offer are on the topic in the
\* order they were observed, within a notification and across notifications.
C12_PublishedInObservedOrder ==
    [][/\ Len(topic') >= Len(topic)
       /\ SubSeq(topic', 1, Len(topic)) = topic
       /\ \A i, j \in (Len(topic) + 1)..Len(topic') :
             (i < j /\ RecordKey(topic'[i]) = RecordKey(topic'[j]))
                 => /\ topic'[i].ev.signature = topic'[j].ev.signature
                    /\ LineOf(topic'[i]) < LineOf(topic'[j])]_vars

\* C12 witness: two lines of one notification, of the same offer, were both
\* published: they are on the topic, the earlier line first.
C12_Witness ==
    \E i \in DOMAIN topic : \E j \in DOMAIN topic :
        /\ i < j
        /\ topic[i].ev.signature = topic[j].ev.signature
        /\ RecordKey(topic[i]) = RecordKey(topic[j])
        /\ LineOf(topic[i]) = 0
        /\ LineOf(topic[j]) = 1

\* C15: steady-state errors never end a loop.  The loop of a service leaves
\* "running" only in a step taken after the shutdown signal of its process
\* has fired (listener, storage-writer and risk-engine alike).
C15_LoopsEndOnlyOnSignal ==
    [][/\ (lState = "running" /\ lState' # "running") => lSignal
       /\ (wState = "running" /\ wState' # "running") => wSignal
       /\ (rState = "running" /\ rState' # "running") => rSignal]_vars

(***************************************************************************)
(* risk-engine: properties                                                 *)
(***************************************************************************)
SendCount(id) == Cardinality({ i \in DOMAIN hSends : hSends[i] = id })

\* C9: alert de-duplication.  Within one process lifetime no alert_id is
\* handed to producer.send more than once, and every id sent is in
\* emitted_alerts.
C9_AlertSentAtMostOnce ==
    \A i \in DOMAIN hSends :
        /\ SendCount(hSends[i]) = 1
        /\ hSends[i] \in emitted_alerts

\* C9 witness: the process has consumed two deliveries of one event that
\* triggers large_amount, and its alert_id was sent once.
C9_Witness ==
    /\ rLives = 0
    /\ rPos >= 3
    /\ topic[1].valid
    /\ topic[2] = topic[1]
    /\ large_amount_rule(topic[1].ev, large_amount_threshold, 0) # <<>>
    /\ SendCount(LargeAlertId(topic[1].ev)) = 1

\* The timestamps all lie within one window.
WithinOneWindow(ts) ==
    \A i, j \in DOMAIN ts : ts[i] - ts[j] <= window_ms

\* C10: freq_cancel fires exactly once per window anchor.  For a maker whose
\* Cancelled events were all processed within one window: before the
\* cancel_threshold-th cancellation no evaluation reaches the threshold; from
\* it on every evaluation does, each computes the alert_id anchored at the
\* first cancellation, and only the one at the threshold-th is sent.
C10_FreqCancelOncePerAnchor ==
    \A m \in Makers :
        WithinOneWindow(hCancels[m]) =>
            /\ Len(hFreq[m]) =
                  IF Len(hCancels[m]) >= cancel_threshold
                  THEN Len(hCancels[m]) - cancel_threshold + 1 ELSE 0
            /\ \A k \in DOMAIN hFreq[m] :
                  /\ hFreq[m][k].n = cancel_threshold + k - 1
                  /\ hFreq[m][k].alert_id = FreqAlertId(m, hCancels[m][1])
                  /\ hFreq[m][k].sent = (k = 1)
            /\ Len(hCancels[m]) >= cancel_threshold
                  => SendCount(FreqAlertId(m, hCancels[m][1])) = 1

\* C10 witness: a maker has cancelled more often than the threshold, at
\* different times of one window; the alert was sent at the threshold-th
\* cancellation and suppressed at the next.
C10_Witness ==
    \E m \in Makers :
        /\ Len(hCancels[m]) > cancel_threshold
        /\ hCancels[m][1] # hCancels[m][Len(hCancels[m])]
        /\ WithinOneWindow(hCancels[m])
        /\ Len(hFreq[m]) = 2
        /\ hFreq[m][1].sent
        /\ ~hFreq[m][2].sent

\* The event_ids of the Cancelled events of maker m on the topic.
CancelledIds(m) ==
    { topic[i].ev.event_id : i \in { j \in DOMAIN topic :
          /\ topic[j].valid
          /\ topic[j].ev.event_type = "OfferCancelled"
          /\ topic[j].ev.maker = m } }

\* C13: the risk-engine absorbs redelivery.  The cancellation count of a
\* maker is at most the number of different Cancelled events (by event_id)
\* delivered for it, and a freq_cancel alert for the maker is on the alerts
\* topic only if that number reaches cancel_threshold: what delivering each
\* event once gives.
C13_RedeliveryAbsorbed ==
    \A m \in Makers :
        /\ Len(QueueOf(cancels, m)) <= Cardinality(CancelledIds(m))
        /\ (\E i \in DOMAIN alerts :
               alerts[i].rule_id = "freq_cancel" /\ alerts[i].maker = m)
              => Cardinality(CancelledIds(m)) >= cancel_threshold

RECURSIVE IdsAtClock(_, _, _, _, _)
\* The emitted_alerts of a run that consumes topic[i..last] starting with the
\* cancel queues qs and the de-dupe set emitted, every reading of the clock
\* being t.
IdsAtClock(i, last, qs, emitted, t) ==
    IF i > last THEN emitted
    ELSE IF ~topic[i].valid THEN IdsAtClock(i + 1, last, qs, emitted, t)
    ELSE LET ev  == topic[i].ev
             la  == large_amount_rule(ev, large_amount_threshold, t)
             em1 == IF la # <<>> THEN emitted \cup {la[1].alert_id} ELSE emitted
             q   == Evict(Append(QueueOf(qs, ev.maker), t), t)
             qs2 == [m \in DOMAIN qs \cup {ev.maker} |->
                        IF m = ev.maker THEN q ELSE qs[m]]
             em2 == IF Len(q) >= cancel_threshold
                    THEN em1 \cup {FreqAlertId(ev.maker, WindowStart(q, t))}
                    ELSE em1
         IN  IF ev.event_type = "OfferCancelled"
             THEN IdsAtClock(i + 1, last, qs2, em2, t)
             ELSE IdsAtClock(i + 1, last, qs, em1, t)

\* Every Cancelled event of this process lifetime was processed at the same
\* reading of the clock.
ClockStoodStill ==
    \E t \in Clock : \A m \in Makers : \A i \in DOMAIN hCancels[m] :
        hCancels[m][i] = t

\* C14: alert ids depend only on upstream facts.  Take a run in which the
\* clock stood still at some reading while the events were processed: the
\* alert_ids it has emitted are those of the run that consumes the same
\* events with the clock standing at 0.  (The two runs differ only in
\* the wall-clock time of processing, and evict the same queue entries.)
C14_AlertIdsClockIndependent ==
    (rLives = 0 /\ ClockStoodStill)
        => emitted_alerts = IdsAtClock(1, rPos - 1, <<>>, {}, 0)

\* The sequence of timestamps is non-decreasing.
NonDecreasing(ts) == \A i, j \in DOMAIN ts : i <= j => ts[i] <= ts[j]

\* Of the first n timestamps, those not more than window_ms before the n-th,
\* in their order.
WindowAt(ts, n) ==
    LET IsRecent(t) == ts[n] - t <= window_ms
    IN  SelectSeq(SubSeq(ts, 1, n), IsRecent)

\* C27: sliding-window content.  For a maker whose Cancelled events were
\* processed at non-decreasing clock readings, the queue after the latest of
\* them holds exactly the processing times that lie not more than window_ms
\* before it, in order, the latest one last; and every evaluation of the
\* freq_cancel rule that produced an alert saw at least cancel_threshold
\* such times.
C27_SlidingWindowContent ==
    \A m \in Makers :
        (hCancels[m] # <<>> /\ NonDecreasing(hCancels[m])) =>
            LET ts == hCancels[m]
                q  == QueueOf(cancels, m)
            IN  /\ q = WindowAt(ts, Len(ts))
                /\ q # <<>> /\ q[Len(q)] = ts[Len(ts)]
                /\ NonDecreasing(q)
                /\ \A k \in DOMAIN hFreq[m] :
                      Len(WindowAt(ts, hFreq[m][k].n)) >= cancel_threshold

\* C27 witness: three cancellations of one maker at rising times; the first
\* is older than the window at the third and was evicted, the second is
\* exactly window_ms old and was kept, and the rule produced an alert.
C27_Witness ==
    \E m \in Makers :
        /\ Len(hCancels[m]) = 3
        /\ NonDecreasing(hCancels[m])
        /\ hCancels[m][3] - hCancels[m][1] > window_ms
        /\ hCancels[m][3] - hCancels[m][2] = window_ms
        /\ cancels[m] = <<hCancels[m][2], hCancels[m][3]>>
        /\ hFreq[m] # <<>>

\* The event_ids of the events at or above the large-amount threshold that
\* the loop has taken, and the positions of hSends that hold a large_amount
\* alert.
LargeTaken ==
    { topic[i].ev.event_id :
        i \in { j \in 1..(rPos - 1) : topic[j].valid /\ LargeFires(topic[j].ev) } }
LargeSent ==
    { k \in DOMAIN hSends : hSends[k] \in { LargeAlertId(e) : e \in RiskEvents } }

\* C28: large_amount alert ids are unique per triggering event.  Two events
\* of different event_id that the loop has taken and that both reach the
\* threshold have different alert_ids, and in a process that has not been
\* restarted every such event has had its own alert handed to the producer.
C28_LargeAlertPerEvent ==
    /\ \A i, j \in 1..(rPos - 1) :
          (/\ topic[i].valid /\ topic[j].valid
           /\ topic[i].ev.event_id # topic[j].ev.event_id
           /\ LargeFires(topic[i].ev) /\ LargeFires(topic[j].ev))
              => LargeAlertId(topic[i].ev) # LargeAlertId(topic[j].ev)
    /\ rLives = 0 => Cardinality(LargeSent) = Cardinality(LargeTaken)

\* How many records of the alerts topic carry the alert_id, and how often a
\* sequence of ids holds it.
OnChannel(ch, id) == Cardinality({ k \in DOMAIN ch : ch[k].alert_id = id })
TimesIn(ids, id) == Cardinality({ k \in DOMAIN ids : ids[k] = id })

\* The step is a loop iteration in which some producer.send of an alert did
\* not deliver.
RiskSendFails ==
    /\ rPos' = rPos + 1
    /\ Len(hSends') - Len(hSends) > Len(alerts') - Len(alerts)

\* C29: alert publish is best-effort and never retried.  A loop iteration in
\* which the send of an alert fails still issues the commit of its message
\* and stays in the loop, with the alert_id in emitted_alerts; and for an
\* alert_id that is in emitted_alerts, no later step of the same process
\* hands it to the producer again or gets an alert of that id onto the
\* alerts topic.
C29_AlertPublishBestEffort ==
    [][/\ RiskSendFails =>
             /\ rIssued' = rPos
             /\ rState' = "running"
             /\ \A k \in (Len(hSends) + 1)..Len(hSends') :
                   hSends'[k] \in emitted_alerts'
       /\ rLives' = rLives =>
             \A id \in emitted_alerts :
                 /\ id \in emitted_alerts'
                 /\ TimesIn(hSends', id) = TimesIn(hSends, id)
                 /\ OnChannel(alerts', id) = OnChannel(alerts, id)]_vars

\* C29 witness: the send of the large_amount alert of the first message
\* failed; the process has since taken a second delivery of that event, and
\* the alert was sent once and is not on the alerts topic.
C29_Witness ==
    /\ rLives = 0
    /\ rPos >= 3 /\ rIssued = 2
    /\ topic[1].valid /\ topic[2] = topic[1]
    /\ LargeFires(topic[1].ev)
    /\ LargeAlertId(topic[1].ev) \in emitted_alerts
    /\ TimesIn(hSends, LargeAlertId(topic[1].ev)) = 1
    /\ OnChannel(alerts, LargeAlertId(topic[1].ev)) = 0

(***************************************************************************)
(* the two consumers of the topic: properties                              *)
(***************************************************************************)
\* The step is an iteration of the storage-writer loop on an undecodable
\* message.
WriterTakesGarbage ==
    /\ wState = "running"
    /\ wPos <= Len(topic)
    /\ wPos' = wPos + 1
    /\ ~topic[wPos].valid

\* The step is an iteration of the risk-engine loop on an undecodable message.
RiskTakesGarbage ==
    /\ rState = "running"
    /\ rPos <= Len(topic)
    /\ rPos' = rPos + 1
    /\ ~topic[rPos].valid

\* C16: decode failure is skipped with the offset advanced.  On a message
\* that is not UTF-8 or not a NormalizedEvent, the storage-writer issues the
\* commit of that message, writes to neither table, and stays in its loop at
\* the next message; the risk-engine issues the commit of that message,
\* changes neither its cancel queues nor its de-dupe set, sends no alert, and
\* stays in its loop at the next message.
C16_DecodeFailureSkipped ==
    [][/\ WriterTakesGarbage =>
             /\ wIssued' = wPos
             /\ wCommitted' \in {wCommitted, wPos}
             /\ events' = events /\ offers' = offers
             /\ wState' = "running"
       /\ RiskTakesGarbage =>
             /\ rIssued' = rPos
             /\ rCommitted' \in {rCommitted, rPos}
             /\ cancels' = cancels /\ emitted_alerts' = emitted_alerts
             /\ alerts' = alerts /\ hSends' = hSends
             /\ rState' = "running"]_vars

\* C16 witness: both consumers have committed the undecodable first message
\* and have gone on to handle the event behind it.
C16_Witness ==
    /\ Len(topic) >= 2
    /\ ~topic[1].valid /\ topic[2].valid
    /\ wCommitted = 1 /\ rCommitted = 1
    /\ wPos = 3 /\ rPos = 3
    /\ Len(events) = 1
    /\ wIssued = 1

\* The step issues the storage-writer's commit of the decodable message it
\* took, resp. the risk-engine's.
WriterCommitsEvent ==
    /\ wPos <= Len(topic) /\ topic[wPos].valid
    /\ wIssued' # wIssued
RiskCommitsEvent ==
    /\ rPos <= Len(topic) /\ topic[rPos].valid
    /\ rIssued' # rIssued

\* The step is the shutdown arm of the storage-writer's select, resp. of the
\* risk-engine's.
WriterStops == wState = "running" /\ wState' = "stopped"
RiskStops == rState = "running" /\ rState' = "stopped"

\* C18: no partial progress marker under shutdown.  A step that issues the
\* storage-writer's commit of a decodable message is the step of that very
\* message, and after it the audit row of the event exists and the projection
\* upsert of the event has run; a step that issues the risk-engine's commit
\* of a decodable message has evaluated both rules: the alert ids the rules
\* produced are in the de-dupe set, a new large_amount id was handed to the
\* producer, and a cancellation was entered into its maker's window.  The
\* step that takes the shutdown arm takes no message: it changes no table,
\* no queue, no alert, no position and no commit.
C18_NoPartialProgressMarker ==
    [][/\ WriterCommitsEvent =>
             LET ev == topic[wPos].ev IN
             /\ wIssued' = wPos /\ wPos' = wPos + 1
             /\ \E i \in DOMAIN events' : events'[i].event_id = ev.event_id
             /\ ev.event_id \in hInserted'
             /\ offers' = UpsertOffer(offers, ev)
             /\ ev \in hUpserted'[ev.offer_id] /\ hLast'[ev.offer_id] = {ev}
       /\ RiskCommitsEvent =>
             LET ev == topic[rPos].ev IN
             /\ rIssued' = rPos /\ rPos' = rPos + 1
             /\ LargeFires(ev) => LargeAlertId(ev) \in emitted_alerts'
             /\ LargeSends(ev) =>
                    \E i \in (Len(hSends) + 1)..Len(hSends') :
                        hSends'[i] = LargeAlertId(ev)
             /\ ev.event_type = "OfferCancelled" =>
                    /\ Len(hCancels'[ev.maker]) = Len(hCancels[ev.maker]) + 1
                    /\ cancels'[ev.maker] # <<>>
                    /\ Len(cancels'[ev.maker]) >= cancel_threshold =>
                           FreqAlertId(ev.maker, Head(cancels'[ev.maker]))
                               \in emitted_alerts'
       /\ WriterStops =>
             UNCHANGED <<wPos, wIssued, wCommitted, events, offers,
                         hInserted, hUpserted>>
       /\ RiskStops =>
             UNCHANGED <<rPos, rIssued, rCommitted, cancels, emitted_alerts,
                         alerts, hSends, hCancels>>]_vars

\* C18 witness: both consumers were stopped by their signals after the
\* commit of a decodable message was issued: the storage-writer's with both
\* rows written, the risk-engine's on a cancellation entered into the window.
C18_Witness ==
    /\ wState = "stopped" /\ wSignal
    /\ rState = "stopped" /\ rSignal
    /\ wIssued >= 1 /\ topic[wIssued].valid
    /\ topic[wIssued].ev.offer_id \in DOMAIN offers
    /\ events # <<>>
    /\ rIssued >= 1 /\ topic[rIssued].valid
    /\ topic[rIssued].ev.event_type = "OfferCancelled"
    /\ hCancels[topic[rIssued].ev.maker] # <<>>
    /\ wPos <= Len(topic)

(***************************************************************************)
(* the three loops: properties                                             *)
(***************************************************************************)
\* C17: graceful stop.  Once the shutdown signal of a process has fired its
\* loop eventually ends, and a loop that has taken the shutdown arm takes no
\* further message: a stopped consumer's position stands still, a stopped
\* listener makes no publish attempt.
C17_GracefulStop ==
    /\ lSignal ~> (lState # "running")
    /\ wSignal ~> (wState = "stopped")
    /\ rSignal ~> (rState = "stopped")
    /\ [][/\ (lState = "stopped" /\ lState' = "stopped")
                => (hAttempts' = hAttempts /\ topic' = topic)
          /\ (wState = "stopped" /\ wState' = "stopped") => wPos' = wPos
          /\ (rState = "stopped" /\ rState' = "stopped") => rPos' = rPos]_vars

\* C17 witness: the three loops have stopped on their signals; the
\* storage-writer took one message and left the next on the topic, the
\* risk-engine took both.
C17_Witness ==
    /\ lState = "stopped" /\ wState = "stopped" /\ rState = "stopped"
    /\ lSignal /\ wSignal /\ rSignal
    /\ wPos = 2 /\ wPos <= Len(topic)
    /\ rPos = Len(topic) + 1

(***************************************************************************)
(* single calls: properties                                                *)
(***************************************************************************)
\* C11: large_amount_rule returns an alert if and only if amount_a or
\* amount_b, read as u64 with an unparsable string counted as 0, is greater
\* than or equal to the threshold; the alert_id of the alert is
\* large_amount:offer_id:signature:slot.
C11_LargeAmountRule ==
    call.fn = "large_amount_rule" =>
        /\ (ret # <<>>) <=> (call.value_a >= call.threshold
                               \/ call.value_b >= call.threshold)
        /\ ret # <<>> =>
              /\ ret[1].rule_id = "large_amount"
              /\ ret[1].alert_id = "large_amount:" \o call.ev.offer_id \o ":"
                                       \o call.ev.signature \o ":"
                                       \o ToString(call.ev.slot)

\* C11 witness: amount_a does not parse and counts as 0, amount_b equals the
\* threshold, and the rule returned an alert.
C11_Witness ==
    /\ call.fn = "large_amount_rule"
    /\ call.ev.amount_a = "x"
    /\ call.threshold > 0
    /\ call.value_b = call.threshold
    /\ ret # <<>>
    /\ ret[1].alert_id = "large_amount:42:" \o call.ev.signature \o ":"
                             \o ToString(call.ev.slot)


\* A line that has the record prefix, parses as an OnchainLogEvent and names
\* one of the three event kinds.
ValidLine(line) ==
    /\ line.shape \notin {"no_prefix", "no_event_key", "bad_json"}
    /\ line.parsed.event \in {"OfferCreated", "OfferFilled", "OfferCancelled"}

ValidLinesOf(resp) == { j \in DOMAIN resp.logs : ValidLine(resp.logs[j]) }

\* C19: lines that do not qualify are skipped without side effect.  For a
\* notification of a transaction without error, the loop body makes exactly
\* one publish attempt per valid line, at the position of that line, whatever
\* lines stand before or after it; every message it gets onto the topic is
\* the event of a valid line, under that line's index and kind; and a
\* notification without a valid line yields no attempt and no message.
C19_InvalidLinesSkipped ==
    (call.fn = "process_notification" /\ ~call.resp.err) =>
        LET resp  == call.resp
            valid == ValidLinesOf(resp)
        IN  /\ Cardinality(ret.attempts) = Cardinality(valid)
            /\ { a.log_index : a \in ret.attempts } = { j - 1 : j \in valid }
            /\ \A a \in ret.attempts : a.signature = resp.signature
            /\ Len(ret.published) <= Cardinality(valid)
            /\ \A k \in DOMAIN ret.published :
                  \E j \in valid :
                      /\ ret.published[k].ev.event_id
                             = format_event_id(resp.signature, j - 1)
                      /\ ret.published[k].ev.event_type = resp.logs[j].parsed.event
            /\ valid = {} => (ret.attempts = {} /\ ret.published = <<>>)

\* C19 witness: a notification whose first line does not qualify and whose
\* second line is an event: one attempt, at index 1, and its message on the
\* topic.
C19_Witness ==
    /\ call.fn = "process_notification" /\ ~call.resp.err
    /\ Len(call.resp.logs) = 2
    /\ ~ValidLine(call.resp.logs[1]) /\ ValidLine(call.resp.logs[2])
    /\ Cardinality(ret.attempts) = 1
    /\ \A a \in ret.attempts : a.log_index = 1
    /\ Len(ret.published) = 1


\* How many of the messages carry the event_id.
PublishedCount(msgs, id) ==
    Cardinality({ k \in DOMAIN msgs : msgs[k].ev.event_id = id })

\* C30: the normalizer never retries and never de-duplicates.  In a pass
\* over a notification, first delivery or redelivery, every valid line gets
\* its publish attempt whatever became of the sends before it; a line whose
\* send delivered is on the topic once and a line whose send failed is not
\* on it, whatever the pass before published; and the attempts of a
\* redelivery carry the event_ids of the first pass.
C30_NoRetryNoDedup ==
    (call.fn \in {"process_notification", "redelivered_notification"}
        /\ ~call.resp.err) =>
        LET resp  == call.resp
            valid == ValidLinesOf(resp)
            id(j) == format_event_id(resp.signature, j - 1)
        IN  /\ { a.log_index : a \in ret.attempts } = { j - 1 : j \in valid }
            /\ \A j \in valid :
                  PublishedCount(ret.published, id(j))
                      = IF call.sent[j] THEN 1 ELSE 0
            /\ Len(ret.published) = Cardinality({ j \in valid : call.sent[j] })
            /\ call.fn = "redelivered_notification" =>
                  { a.event_id : a \in ret.attempts }
                      = { a.event_id : a \in call.first.attempts }

\* C30 witness: the send of the first line failed in the first pass and the
\* send of the second line delivered; the event of the first line was not on
\* the topic and no second attempt was made for it.  At the redelivery both
\* sends delivered: the second line's event is published again under its
\* event_id.
C30_Witness ==
    /\ call.fn = "redelivered_notification" /\ ~call.resp.err
    /\ ValidLinesOf(call.resp) = {1, 2}
    /\ ~call.first_sent[1] /\ call.first_sent[2]
    /\ Len(call.first.published) = 1
    /\ call.first.published[1].ev.event_id = format_event_id(call.resp.signature, 1)
    /\ call.sent[1] /\ call.sent[2]
    /\ Len(ret.published) = 2
    /\ ret.published[2].ev.event_id = call.first.published[1].ev.event_id

\* A u64 value as an i64 column holds it when it is cut at i64::MAX.
Saturated(v) == IF v <= I64Max THEN v ELSE I64Max

\* C32: amounts stored in the projection are saturated, never negative.
\* Whenever handle_event inserts or overwrites the row of an offer, the
\* row's amount_a and amount_b afterwards are the u64 value of the event's
\* amount string where that value is at most i64::MAX, i64::MAX where it is
\* larger, and 0 where the string does not parse as a u64.
C32_AmountsSaturated ==
    [][(call' # call /\ call'.fn = "handle_event") =>
          LET ev == call'.ev
              o == ev.offer_id
          IN  (o \notin DOMAIN offers \/ AsI64(ev.slot) >= offers[o].updated_slot) =>
                  /\ offers'[o].amount_a = Saturated(call'.value_a)
                  /\ offers'[o].amount_b = Saturated(call'.value_b)
                  /\ offers'[o].amount_a \in 0..I64Max
                  /\ offers'[o].amount_b \in 0..I64Max]_vars

\* C32 witness: a row with the amounts 1 and 2 was overwritten by an event
\* whose amount_a is u64::MAX and whose amount_b does not parse; the row
\* holds i64::MAX and 0.
C32_Witness ==
    /\ call.fn = "handle_event" /\ call.n = MaxCalls
    /\ \E f \in hFirst["42"] :
          /\ f.amount_a = "1" /\ f.amount_b = "2"
          /\ f.slot <= call.ev.slot
    /\ hLast["42"] = {call.ev}
    /\ call.ev.amount_a = ToString(U64Max) /\ call.value_a = U64Max
    /\ call.ev.amount_b = "x"
    /\ offers["42"].amount_a = I64Max
    /\ offers["42"].amount_b = 0

\* C33: failed transactions produce no events.  For a notification whose
\* transaction carries an error, delivered once or once more, the loop body
\* gets no message onto the topic and makes no publish attempt, whatever its
\* log lines are, and the process stays in its loop.
C33_FailedTransactionNoEvents ==
    (call.fn \in {"process_notification", "redelivered_notification"}
        /\ call.resp.err) =>
            /\ ret.published = <<>>
            /\ ret.attempts = {}
            /\ lState = "running"

\* C33 witness: the notification of a failed transaction all of whose
\* MaxLines log lines are well-formed event records was processed, and
\* nothing was published.
C33_Witness ==
    /\ call.fn = "process_notification"
    /\ call.resp.err
    /\ Len(call.resp.logs) = MaxLines
    /\ ValidLinesOf(call.resp) = DOMAIN call.resp.logs
    /\ ret.published = <<>>
    /\ ret.attempts = {}

====
